---- MODULE Spec2Model ----
(***************************************************************************)
(* go-speed: a speed-test server (ping / download / upload handlers) and a *)
(* terminal client that times a ping, a download and a fan-out upload.     *)
(*                                                                         *)
(* Two server programs are in the repository: src/main.go ("plain": the    *)
(* default download size is hardcoded, no metrics) and the server part of  *)
(* src/cli/help.go ("metrics": default-size flag honoured, Prometheus      *)
(* counters).  Two bubbletea clients: src/cli/main.go ("cli": real HTTP)   *)
(* and src/unnamed/part_000 ("stub": sleeps instead of requests).          *)
(***************************************************************************)
EXTENDS Integers, Sequences, FiniteSets, TLC

VARIABLES
    variant,            \* which server program runs: "plain" | "metrics"
    chunkFlag,          \* value of the -chunk-size flag
    defaultFlag,        \* value of the -default-size flag
    writeTimeout,       \* value of the -write-timeout flag (0: no limit)
    readTimeout,        \* value of the -read-timeout flag (0: no limit)
    srv,                \* "boot" | "serving" | "draining" | "crashed" | "exited"
    payloadLen,         \* len(payloadChunk)
    defaultDownloadSize,\* package variable of the metrics server
    downloadByteCnt,    \* download_bytes_total
    uploadByteCnt,      \* upload_bytes_total
    conns,              \* connections on which requests arrive
    h,                  \* h[c]: the handler goroutine serving connection c
    nreq                \* requests accepted so far

svars == <<variant, chunkFlag, defaultFlag, writeTimeout, readTimeout, srv,
           payloadLen, defaultDownloadSize, downloadByteCnt, uploadByteCnt,
           conns, h, nreq>>

VARIABLES
    client,             \* which client program runs: "cli" | "stub"
    cfgSize,            \* testSize of the build
    cfgStreams,         \* streams of the build
    runsLeft,           \* programs main starts after the one that runs
    m,                  \* the bubbletea model
    cmds,               \* commands running in their goroutines
    msgs,               \* messages sent to the event loop, not yet handled
    alive,              \* a program runs (FALSE once main is over)
    pingReqs,           \* GET /ping requests issued
    dlReqs,             \* GET /download requests issued
    ulReqs,             \* POST /upload requests issued
    pingRes,            \* how the ping request of the program ended
    dlRes,              \* how the download request of the program ended
    failures,           \* requests of the process that failed in the transport
    st,                 \* st[i]: where upload goroutine i is
    res,                \* res[i]: how the request of upload goroutine i ended
    totalBytes,         \* uploadTestCmd's totalBytes
    counter,            \* uploadTestCmd's counter
    wg,                 \* the WaitGroup's count
    upDur               \* uploadTestCmd's dur

cfgVars == <<client, cfgSize, cfgStreams>>
loopVars == <<m, cmds, msgs, alive>>
netVars == <<pingReqs, dlReqs, ulReqs, pingRes, dlRes, failures>>
fanVars == <<st, res, totalBytes, counter, wg, upDur>>
cvars == <<cfgVars, runsLeft, loopVars, netVars, fanVars>>

vars == <<svars, cvars>>

-----------------------------------------------------------------------------
(* Bounds of the exploration.                                              *)
MaxWrites == 8      \* a download is explored when it needs at most this many writes
MaxRequests == 2    \* requests accepted in one behaviour
MaxBody == 3        \* longest upload body

(* Program constants.                                                      *)
HardcodedDefaultSize == 41943040
StatusOK == 200
StatusBadRequest == 400
StatusInternalServerError == 500
testSize == 104857600
streams == 4
StubBytes == 10485760

ChunkFlags == {-1, 0, 2, 3, 1024, 16777216}
DefaultFlags == {-1, 0, 5, 4096}
WriteTimeouts == {0, 5}
ReadTimeouts == {0, 10}
ConnIds == {1, 2}

SizeValues == { <<>>, <<"0">>, <<"-", "1">>, <<"+", "2">>, <<"3">>, <<"7">>,
                <<"x">>, <<"1", "x">>, <<"-">>, <<"0", "5">> }
NoSize == [present |-> FALSE, value |-> <<>>]
Queries == {NoSize} \cup {[present |-> TRUE, value |-> v] : v \in SizeValues}

Min(a, b) == IF a < b THEN a ELSE b

-----------------------------------------------------------------------------
(* strconv                                                                 *)
DigitChars == <<"0", "1", "2", "3", "4", "5", "6", "7", "8", "9">>
IsDigit(ch) == \E d \in 1..10 : DigitChars[d] = ch
DigitVal(ch) == (CHOOSE d \in 1..10 : DigitChars[d] = ch) - 1

RECURSIVE DigitsVal(_)
DigitsVal(s) ==
    IF s = <<>> THEN 0
    ELSE DigitsVal(SubSeq(s, 1, Len(s) - 1)) * 10 + DigitVal(s[Len(s)])

\* strconv.Atoi: optional sign, then one or more decimal digits
Atoi(s) ==
    LET signed == s # <<>> /\ s[1] \in {"-", "+"}
        body == IF signed THEN Tail(s) ELSE s
    IN  IF body = <<>> \/ \E i \in 1..Len(body) : ~IsDigit(body[i])
        THEN [ok |-> FALSE, val |-> 0]
        ELSE [ok |-> TRUE,
              val |-> IF signed /\ s[1] = "-" THEN 0 - DigitsVal(body)
                      ELSE DigitsVal(body)]

RECURSIVE NatDigits(_)
NatDigits(n) ==
    IF n < 10 THEN <<DigitChars[n + 1]>>
    ELSE Append(NatDigits(n \div 10), DigitChars[(n % 10) + 1])

\* strconv.Itoa, and fmt's %d
Itoa(n) == IF n < 0 THEN <<"-">> \o NatDigits(0 - n) ELSE NatDigits(n)

\* r.URL.Query().Get("size"): the value, or "" when the parameter is absent
QueryGet(q) == IF q.present THEN q.value ELSE <<>>

-----------------------------------------------------------------------------
(* Server                                                                  *)
Idle == [pc |-> "idle", kind |-> "none", query |-> NoSize, totalSize |-> 0,
         sent |-> 0, n |-> 0, writes |-> 0, status |-> 0,
         contentLength |-> <<>>, body |-> "none", outcome |-> "none",
         bodyLen |-> 0, left |-> 0, bytesRead |-> 0, report |-> <<>>,
         stalled |-> FALSE]

ServerInit ==
    /\ variant \in {"plain", "metrics"}
    /\ chunkFlag \in ChunkFlags
    /\ defaultFlag \in DefaultFlags
    /\ writeTimeout \in WriteTimeouts
    /\ readTimeout \in ReadTimeouts
    /\ srv = "boot"
    /\ payloadLen = 0
    /\ defaultDownloadSize = 0
    /\ downloadByteCnt = 0
    /\ uploadByteCnt = 0
    /\ conns = {1}
    /\ h = [c \in conns |-> Idle]
    /\ nreq = 0
    \* the client is not started
    /\ client = "cli" /\ cfgSize = testSize /\ cfgStreams = streams
    /\ runsLeft = 0
    /\ m = [phase |-> "ping"] /\ cmds = {} /\ msgs = {} /\ alive = FALSE
    /\ pingReqs = 0 /\ dlReqs = 0 /\ ulReqs = 0
    /\ pingRes = "none" /\ dlRes = "none" /\ failures = {}
    /\ st = <<>> /\ res = <<>>
    /\ totalBytes = 0 /\ counter = 0 /\ wg = 0 /\ upDur = 0

\* main: flag.Parse, make([]byte, *chunkSize), register the handlers, serve.
\* make panics on a negative length; nothing else about the flags is checked.
ServerMain ==
    /\ srv = "boot"
    /\ IF chunkFlag < 0
       THEN /\ srv' = "crashed"
            /\ UNCHANGED <<payloadLen, defaultDownloadSize>>
       ELSE /\ srv' = "serving"
            /\ payloadLen' = chunkFlag
            /\ defaultDownloadSize' =
                   IF variant = "metrics" THEN defaultFlag ELSE defaultDownloadSize
    /\ UNCHANGED <<cvars, variant, chunkFlag, defaultFlag, writeTimeout,
                   readTimeout, downloadByteCnt, uploadByteCnt, conns, h,
                   nreq>>

\* the process runs: its handler goroutines can take steps
ProcessUp == srv \in {"serving", "draining"}

\* the metrics server receives SIGINT / SIGTERM: srv.Shutdown stops accepting
\* and waits, for 5 seconds at most, for the requests under way
ServerShutdown ==
    /\ variant = "metrics"
    /\ srv = "serving"
    /\ srv' = "draining"
    /\ UNCHANGED <<cvars, variant, chunkFlag, defaultFlag, writeTimeout,
                   readTimeout, payloadLen, defaultDownloadSize,
                   downloadByteCnt, uploadByteCnt, conns, h, nreq>>

\* the process ends and every handler goroutine with it: ListenAndServe
\* returned an error (log.Fatalf), the plain server was signalled, or
\* Shutdown returned or ran out of time
ServerExit ==
    /\ ProcessUp
    /\ srv' = "exited"
    /\ UNCHANGED <<cvars, variant, chunkFlag, defaultFlag, writeTimeout,
                   readTimeout, payloadLen, defaultDownloadSize,
                   downloadByteCnt, uploadByteCnt, conns, h, nreq>>

\* the size a request without a size parameter gets
DefaultTotalSize ==
    IF variant = "metrics" THEN defaultDownloadSize ELSE HardcodedDefaultSize

\* the size parameter is accepted
ValidSizeNonNeg(a) == a.ok /\ a.val >= 0

ValidSize(a) == a.ok /\ a.val > 0

\* the exploration bound on one download: its loop is bounded by MaxWrites,
\* unless the chunk is empty (then the loop never ends, whatever the size)
Explored(total) == payloadLen = 0 \/ total <= MaxWrites * payloadLen

\* downloadHandler up to the loop: parse and validate, set the headers
DlRequest(c, q) ==
    LET sizeParam == QueryGet(q)
        a == Atoi(sizeParam)
        total == IF sizeParam = <<>> THEN DefaultTotalSize ELSE a.val
    IN  /\ srv = "serving"
        /\ h[c].pc = "idle"
        /\ nreq < MaxRequests
        /\ nreq' = nreq + 1
        /\ IF sizeParam # <<>> /\ ~ValidSize(a)
           THEN h' = [h EXCEPT ![c] = [Idle EXCEPT
                        !.pc = "done", !.kind = "download", !.query = q,
                        !.status = StatusBadRequest, !.body = "error",
                        !.outcome = "Aborted"]]
           ELSE /\ Explored(total)
                /\ h' = [h EXCEPT ![c] = [Idle EXCEPT
                        !.pc = "loop", !.kind = "download", !.query = q,
                        !.totalSize = total,
                        !.contentLength = Itoa(total)]]
        /\ UNCHANGED <<cvars, variant, chunkFlag, defaultFlag, writeTimeout,
                       readTimeout, srv, payloadLen, defaultDownloadSize,
                       downloadByteCnt, uploadByteCnt, conns>>

\* n of one loop iteration
ChunkLen(total, sent, chunkSize) == Min(total - sent, chunkSize)

\* for sent < totalSize { n := ...
DlLoop(c) ==
    /\ ProcessUp
    /\ h[c].pc = "loop"
    /\ h[c].sent < h[c].totalSize
    /\ h' = [h EXCEPT ![c].pc = "write",
                      ![c].n = ChunkLen(h[c].totalSize, h[c].sent, payloadLen)]
    /\ UNCHANGED <<cvars, variant, chunkFlag, defaultFlag, writeTimeout,
                   readTimeout, srv, payloadLen, defaultDownloadSize,
                   downloadByteCnt, uploadByteCnt, conns, nreq>>

\* the peer stops reading and keeps the connection: once the buffers are
\* full, a write of n > 0 bytes blocks
PeerStalls(c) ==
    /\ ProcessUp
    /\ h[c].pc = "write"
    /\ h[c].n > 0
    /\ ~h[c].stalled
    /\ h' = [h EXCEPT ![c].stalled = TRUE]
    /\ UNCHANGED <<cvars, variant, chunkFlag, defaultFlag, writeTimeout,
                   readTimeout, srv, payloadLen, defaultDownloadSize,
                   downloadByteCnt, uploadByteCnt, conns, nreq>>

\* w.Write(payloadChunk[:n]) returns nil; sent += n
DlWriteOk(c) ==
    /\ ProcessUp
    /\ h[c].pc = "write"
    /\ ~h[c].stalled
    /\ h' = [h EXCEPT ![c].pc = "loop",
                      ![c].sent = h[c].sent + h[c].n,
                      ![c].writes = Min(h[c].writes + 1, MaxWrites),
                      ![c].status = StatusOK,
                      ![c].body = "payload"]
    /\ UNCHANGED <<cvars, variant, chunkFlag, defaultFlag, writeTimeout,
                   readTimeout, srv, payloadLen, defaultDownloadSize,
                   downloadByteCnt, uploadByteCnt, conns, nreq>>

\* w.Write returns an error (the client went away, or the write deadline of
\* a server with a WriteTimeout passed): log and return.  net/http reports no
\* error for a write of zero bytes; with WriteTimeout 0 a write to a stalled
\* peer stays blocked.
DlWriteErrBreak(c) ==
    /\ ProcessUp
    /\ h[c].pc = "write"
    /\ h[c].n > 0
    /\ h[c].stalled => writeTimeout > 0
    /\ h' = [h EXCEPT ![c].pc = "done", ![c].outcome = "Aborted",
                      ![c].status = StatusOK]
    /\ downloadByteCnt' = downloadByteCnt + h[c].totalSize
    /\ UNCHANGED <<cvars, variant, chunkFlag, defaultFlag, writeTimeout,
                   readTimeout, srv, payloadLen, defaultDownloadSize,
                   uploadByteCnt, conns, nreq>>

DlWriteErr(c) ==
    /\ ProcessUp
    /\ h[c].pc = "write"
    /\ h[c].n > 0
    /\ h[c].stalled => writeTimeout > 0
    /\ h' = [h EXCEPT ![c].pc = "done", ![c].outcome = "Aborted",
                      ![c].status = StatusOK]
    /\ UNCHANGED <<cvars, variant, chunkFlag, defaultFlag, writeTimeout,
                   readTimeout, srv, payloadLen, defaultDownloadSize,
                   downloadByteCnt, uploadByteCnt, conns, nreq>>

\* Counter.Add of the metrics server; Prometheus panics on a negative value
CounterAdd(cnt, v) == cnt + v

\* the loop is over: downloadByteCnt.Add(float64(totalSize)), log, return
DlReturn(c) ==
    /\ ProcessUp
    /\ h[c].pc = "loop"
    /\ h[c].sent >= h[c].totalSize
    /\ IF variant = "metrics" /\ h[c].totalSize < 0
       THEN /\ h' = [h EXCEPT ![c].pc = "done", ![c].outcome = "Panicked"]
            /\ UNCHANGED downloadByteCnt
       ELSE /\ h' = [h EXCEPT ![c].pc = "done", ![c].outcome = "Completed",
                              ![c].status = StatusOK]
            /\ downloadByteCnt' =
                   IF variant = "metrics"
                   THEN CounterAdd(downloadByteCnt, h[c].totalSize)
                   ELSE downloadByteCnt
    /\ UNCHANGED <<cvars, variant, chunkFlag, defaultFlag, writeTimeout,
                   readTimeout, srv, payloadLen, defaultDownloadSize,
                   uploadByteCnt, conns, nreq>>

\* uploadHandler is entered with a body of len bytes to come
UlRequest(c, len) ==
    /\ srv = "serving"
    /\ h[c].pc = "idle"
    /\ nreq < MaxRequests
    /\ nreq' = nreq + 1
    /\ h' = [h EXCEPT ![c] = [Idle EXCEPT !.pc = "read", !.kind = "upload",
                                          !.bodyLen = len, !.left = len]]
    /\ UNCHANGED <<cvars, variant, chunkFlag, defaultFlag, writeTimeout,
                   readTimeout, srv, payloadLen, defaultDownloadSize,
                   downloadByteCnt, uploadByteCnt, conns>>

\* the peer stops sending the body and keeps the connection: the Read of
\* io.Copy blocks
PeerStopsSending(c) ==
    /\ ProcessUp
    /\ h[c].pc = "read"
    /\ h[c].left > 0
    /\ ~h[c].stalled
    /\ h' = [h EXCEPT ![c].stalled = TRUE]
    /\ UNCHANGED <<cvars, variant, chunkFlag, defaultFlag, writeTimeout,
                   readTimeout, srv, payloadLen, defaultDownloadSize,
                   downloadByteCnt, uploadByteCnt, conns, nreq>>

\* io.Copy(io.Discard, r.Body): one Read returns k bytes
UlRead(c, k) ==
    /\ ProcessUp
    /\ h[c].pc = "read"
    /\ ~h[c].stalled
    /\ k <= h[c].left
    /\ h' = [h EXCEPT ![c].left = h[c].left - k,
                      ![c].bytesRead = h[c].bytesRead + k]
    /\ UNCHANGED <<cvars, variant, chunkFlag, defaultFlag, writeTimeout,
                   readTimeout, srv, payloadLen, defaultDownloadSize,
                   downloadByteCnt, uploadByteCnt, conns, nreq>>

\* the response to a body that could not be read: http.Error(w, ..., 500)
ReadErrPartial(r) ==
    [r EXCEPT !.pc = "done", !.outcome = "Aborted", !.status = StatusOK,
              !.body = "report", !.report = Itoa(r.bytesRead)]

ReadErrResponse(r) ==
    [r EXCEPT !.pc = "done", !.outcome = "Aborted",
              !.status = StatusInternalServerError, !.body = "error"]

\* a Read fails (the client went away, or the read deadline of a server
\* with a ReadTimeout passed): log, http.Error and return; nothing is
\* counted.  With ReadTimeout 0 a Read from a silent peer stays blocked.
UlReadErr(c) ==
    /\ ProcessUp
    /\ h[c].pc = "read"
    /\ h[c].stalled => readTimeout > 0
    /\ h' = [h EXCEPT ![c] = ReadErrResponse(h[c])]
    /\ UNCHANGED <<cvars, variant, chunkFlag, defaultFlag, writeTimeout,
                   readTimeout, srv, payloadLen, defaultDownloadSize,
                   downloadByteCnt, uploadByteCnt, conns, nreq>>

\* the text of the 200 response
UploadReportKiB(bytesRead) == Itoa(bytesRead \div 1024)

UploadReport(bytesRead) == Itoa(bytesRead)

\* Read returns io.EOF: 200, "received %d bytes", uploadByteCnt.Add
UlEOF(c) ==
    /\ ProcessUp
    /\ h[c].pc = "read"
    /\ h[c].left = 0
    /\ h' = [h EXCEPT ![c].pc = "done", ![c].outcome = "Completed",
                      ![c].status = StatusOK, ![c].body = "report",
                      ![c].report = UploadReport(h[c].bytesRead)]
    /\ uploadByteCnt' =
           IF variant = "metrics" THEN CounterAdd(uploadByteCnt, h[c].bytesRead)
           ELSE uploadByteCnt
    /\ UNCHANGED <<cvars, variant, chunkFlag, defaultFlag, writeTimeout,
                   readTimeout, srv, payloadLen, defaultDownloadSize,
                   downloadByteCnt, conns, nreq>>

\* the handler has returned; the connection is ready for its next request
ConnNext(c) ==
    /\ ProcessUp
    /\ h[c].pc = "done"
    /\ nreq < MaxRequests
    /\ h' = [h EXCEPT ![c] = Idle]
    /\ UNCHANGED <<cvars, variant, chunkFlag, defaultFlag, writeTimeout,
                   readTimeout, srv, payloadLen, defaultDownloadSize,
                   downloadByteCnt, uploadByteCnt, conns, nreq>>

HandlerStep(c) ==
    \/ DlLoop(c)
    \/ DlWriteOk(c)
    \/ DlWriteErr(c)
    \/ DlReturn(c)
    \/ \E k \in 1..MaxBody : UlRead(c, k)
    \/ UlReadErr(c)
    \/ UlEOF(c)

ServerNext ==
    \/ ServerMain
    \/ ServerShutdown
    \/ ServerExit
    \/ \E c \in conns : PeerStalls(c)
    \/ \E c \in conns : PeerStopsSending(c)
    \/ \E c \in conns, q \in Queries : DlRequest(c, q)
    \/ \E c \in conns, len \in 0..MaxBody : UlRequest(c, len)
    \/ \E c \in conns : DlLoop(c)
    \/ \E c \in conns : DlWriteOk(c)
    \/ \E c \in conns : DlWriteErr(c)
    \/ \E c \in conns : DlReturn(c)
    \/ \E c \in conns, k \in 1..MaxBody : UlRead(c, k)
    \/ \E c \in conns : UlReadErr(c)
    \/ \E c \in conns : UlEOF(c)
    \/ \E c \in conns : ConnNext(c)

-----------------------------------------------------------------------------
(* Client                                                                  *)

\* float64(bytes) / dur.Seconds() / (1024 * 1024): the quotient bytes/dur,
\* which IEEE division makes +Inf or NaN when dur is 0
Speed(bytes, dur) ==
    IF dur = 0
    THEN [kind |-> IF bytes = 0 THEN "NaN" ELSE "Inf", bytes |-> bytes, dur |-> 0]
    ELSE [kind |-> "finite", bytes |-> bytes, dur |-> IF bytes = 0 THEN 1 ELSE dur]

ZeroSpeed == [kind |-> "finite", bytes |-> 0, dur |-> 1]

\* initialModel
initialModel ==
    [phase |-> "ping", latency |-> 0, downloadSpeed |-> ZeroSpeed,
     uploadSpeed |-> ZeroSpeed, percent |-> <<0, 1>>, width |-> "default"]

pingMsg(dur) == [type |-> "ping", dur |-> dur]
downloadMsg(bytes, dur) == [type |-> "download", bytes |-> bytes, dur |-> dur]
uploadMsg(bytes, dur) == [type |-> "upload", bytes |-> bytes, dur |-> dur]
progressMsg(done, total) == [type |-> "progress", done |-> done, total |-> total]
errorMsg == [type |-> "error"]
QuitMsg == [type |-> "quit"]
BatchMsg(cs) == [type |-> "batch", cmds |-> cs]

\* the phase Update leaves the model in
PhaseAfter(phase, msg) ==
    CASE msg.type = "ping" -> "download"
      [] msg.type = "download" -> "upload"
      [] msg.type = "upload" -> "done"
      [] msg.type = "error" -> "error"
      [] OTHER -> phase

\* model.Update: the new model
UpdateModel(mm, msg) ==
    LET q == [mm EXCEPT !.phase = PhaseAfter(mm.phase, msg)]
    IN  CASE msg.type = "ping" -> [q EXCEPT !.latency = msg.dur]
          [] msg.type = "download" ->
                [q EXCEPT !.downloadSpeed = Speed(msg.bytes, msg.dur)]
          [] msg.type = "upload" ->
                [q EXCEPT !.uploadSpeed = Speed(msg.bytes, msg.dur)]
          [] msg.type = "progress" ->
                IF client = "cli" /\ msg.total > 0
                THEN [q EXCEPT !.percent = <<msg.done, msg.total>>]
                ELSE q
          [] msg.type = "error" -> [q EXCEPT !.width = 0]
          [] OTHER -> q

\* model.Update: the command it returns (the stub never quits)
UpdateCmd(msg) ==
    CASE msg.type = "ping" -> {"download"}
      [] msg.type = "download" -> {"upload"}
      [] msg.type \in {"upload", "error"} ->
            IF client = "cli" THEN {"quit"} ELSE {}
      [] OTHER -> {}

\* main: what the arguments select.  The command is looked at only when
\* len(os.Args) > 2, that is with two arguments or more.
Argvs == { <<>>, <<"help">>, <<"help", "x">>, <<"version", "x">>, <<"x", "y">> }

ArgMode(argv) ==
    IF Len(argv) + 1 > 2
    THEN CASE argv[1] \in {"help", "--help", "-h"} -> "help"
           [] argv[1] \in {"version", "--version", "-v"} -> "version"
           [] OTHER -> "unknown"
    ELSE "run"

\* the model of the first program main starts
StartModel(mode) ==
    CASE mode \in {"help", "version"} -> [initialModel EXCEPT !.phase = mode]
      [] mode = "unknown" -> [initialModel EXCEPT !.phase = "", !.width = 0]
      [] OTHER -> initialModel

TotalSizes == {8, 10, testSize}
StreamCounts == {1, 2, streams}
Durations == {0, 2}
ShortBodies == {23}

ClientInit ==
    /\ client \in {"cli", "stub"}
    /\ cfgSize \in (IF client = "cli" THEN TotalSizes ELSE {testSize})
    /\ cfgStreams \in (IF client = "cli" THEN StreamCounts ELSE {streams})
    /\ \E argv \in Argvs :
          LET mode == ArgMode(argv)
          IN  /\ m = StartModel(mode)
              \* an unknown command: os.Exit(1), no program is started
              /\ alive = (mode # "unknown")
              /\ cmds = IF mode = "unknown" THEN {} ELSE {"ping"}
              \* after a help or version program main starts a second one
              /\ runsLeft = IF mode \in {"help", "version"} THEN 1 ELSE 0
    /\ msgs = {}
    /\ pingReqs = 0
    /\ dlReqs = 0
    /\ ulReqs = 0
    /\ pingRes = "none"
    /\ dlRes = "none"
    /\ failures = {}
    /\ st = [i \in 1..cfgStreams |-> "none"]
    /\ res = [i \in 1..cfgStreams |-> "none"]
    /\ totalBytes = 0
    /\ counter = 0
    /\ wg = 0
    /\ upDur = 0
    \* the server is not started
    /\ variant = "metrics" /\ chunkFlag = 0 /\ defaultFlag = 0
    /\ writeTimeout = 0 /\ readTimeout = 0 /\ srv = "off"
    /\ payloadLen = 0 /\ defaultDownloadSize = 0
    /\ downloadByteCnt = 0 /\ uploadByteCnt = 0
    /\ conns = {} /\ h = <<>> /\ nreq = 0

\* the event loop takes a message and runs Update on it
Update(msg) ==
    /\ alive
    /\ msg \in msgs
    /\ msg.type \notin {"quit", "batch"}
    /\ m' = UpdateModel(m, msg)
    /\ msgs' = msgs \ {msg}
    /\ cmds' = cmds \cup UpdateCmd(msg)
    /\ UNCHANGED <<svars, alive, cfgVars, runsLeft, netVars, fanVars>>

\* the event loop takes a BatchMsg: every command of it is started
HandleBatch(msg) ==
    /\ alive
    /\ msg \in msgs
    /\ msg.type = "batch"
    /\ msgs' = msgs \ {msg}
    /\ cmds' = cmds \cup msg.cmds
    /\ UNCHANGED <<svars, m, alive, cfgVars, runsLeft, netVars, fanVars>>

\* the event loop of the last program takes the QuitMsg and returns; main
\* returns and the process exits
HandleQuit ==
    /\ alive
    /\ QuitMsg \in msgs
    /\ runsLeft = 0
    /\ alive' = FALSE
    /\ msgs' = msgs \ {QuitMsg}
    /\ UNCHANGED <<svars, m, cmds, cfgVars, runsLeft, netVars, fanVars>>

\* the event loop of the help / version program takes the QuitMsg: p.Run
\* returns nil and main goes on to tea.NewProgram(initialModel()).Start(),
\* whose Init is pingTestCmd again.  What the first program left running
\* has no event loop to report to.
RunSecondProgram ==
    /\ alive
    /\ QuitMsg \in msgs
    /\ runsLeft > 0
    /\ runsLeft' = runsLeft - 1
    /\ m' = initialModel
    /\ cmds' = {"ping"}
    /\ msgs' = {}
    /\ pingRes' = "none"
    /\ dlRes' = "none"
    /\ st' = [i \in 1..cfgStreams |-> "none"]
    /\ res' = [i \in 1..cfgStreams |-> "none"]
    /\ totalBytes' = 0
    /\ counter' = 0
    /\ wg' = 0
    /\ upDur' = 0
    /\ UNCHANGED <<svars, alive, cfgVars, pingReqs, dlReqs, ulReqs, failures>>

\* tea.Quit
QuitCmd ==
    /\ alive
    /\ "quit" \in cmds
    /\ cmds' = cmds \ {"quit"}
    /\ msgs' = msgs \cup {QuitMsg}
    /\ UNCHANGED <<svars, m, alive, cfgVars, runsLeft, netVars, fanVars>>

\* what pingTestCmd returns for the way its request ended
PingResult(outcome, dur) ==
    IF outcome = "refused" THEN errorMsg ELSE pingMsg(dur)

\* pingTestCmd: GET /ping; an error of Get is the only failure looked at
pingTestCmd(outcome, dur) ==
    /\ alive
    /\ client = "cli"
    /\ "ping" \in cmds
    /\ pingReqs' = pingReqs + 1
    /\ pingRes' = outcome
    /\ cmds' = cmds \ {"ping"}
    /\ msgs' = msgs \cup {PingResult(outcome, dur)}
    /\ failures' = IF outcome = "refused" THEN failures \cup {"ping"} ELSE failures
    /\ UNCHANGED <<svars, m, alive, cfgVars, runsLeft, dlReqs, ulReqs, dlRes, fanVars>>

\* what downloadTestCmd returns: n is what io.Copy counted (after a failed
\* Get or a failed read of the body it is not looked at)
DownloadResult(outcome, n, dur) ==
    IF outcome \in {"refused", "bodyErr"} THEN errorMsg ELSE downloadMsg(n, dur)

\* downloadTestCmd: GET /download?size=testSize, drain the body
downloadTestCmd(outcome, n, dur) ==
    /\ alive
    /\ client = "cli"
    /\ "download" \in cmds
    /\ outcome = "ok" => n = cfgSize
    /\ outcome = "status" => n \in ShortBodies
    /\ dlReqs' = dlReqs + 1
    /\ dlRes' = outcome
    /\ cmds' = cmds \ {"download"}
    /\ msgs' = msgs \cup {DownloadResult(outcome, n, dur)}
    /\ failures' = IF outcome \in {"refused", "bodyErr"}
                   THEN failures \cup {"download"} ELSE failures
    /\ UNCHANGED <<svars, m, alive, cfgVars, runsLeft, pingReqs, ulReqs, pingRes,
                   fanVars>>

\* segSize := testSize / streams
SegSize(total, count) == total \div count

\* uploadTestCmd up to wg.Wait: wg.Add(streams), one goroutine per stream
uploadTestCmd ==
    /\ alive
    /\ client = "cli"
    /\ "upload" \in cmds
    /\ cmds' = (cmds \ {"upload"}) \cup {"uploadWait"}
    /\ totalBytes' = 0
    /\ counter' = 0
    /\ wg' = cfgStreams
    /\ st' = [i \in 1..cfgStreams |-> "new"]
    /\ UNCHANGED <<svars, m, msgs, alive, cfgVars, runsLeft, netVars, res, upDur>>

\* err == nil after httpClient.Do: the status of the response is not looked at
ErrUnchecked(outcome) == TRUE

ErrIsNil(outcome) == outcome # "refused"

\* a stream goroutine: POST /upload with segSize bytes; on an error it returns
\* (the deferred wg.Done runs)
StreamDo(i, outcome) ==
    /\ alive
    /\ st[i] = "new"
    /\ ulReqs' = ulReqs + 1
    /\ res' = [res EXCEPT ![i] = outcome]
    /\ IF ErrIsNil(outcome)
       THEN st' = [st EXCEPT ![i] = "addTotal"] /\ wg' = wg
       ELSE st' = [st EXCEPT ![i] = "finished"] /\ wg' = wg - 1
    /\ UNCHANGED <<svars, loopVars, cfgVars, runsLeft, pingReqs, dlReqs, pingRes,
                   dlRes, failures, totalBytes, counter, upDur>>

\* atomic.AddInt64
StoreInsteadOfAdd(v, delta) == delta

AtomicAdd(v, delta) == v + delta

\* atomic.AddInt64(&totalBytes, int64(segSize))
StreamAddTotal(i) ==
    /\ alive
    /\ st[i] = "addTotal"
    /\ totalBytes' = AtomicAdd(totalBytes, SegSize(cfgSize, cfgStreams))
    /\ st' = [st EXCEPT ![i] = "addCounter"]
    /\ UNCHANGED <<svars, loopVars, cfgVars, runsLeft, netVars, res, counter, wg, upDur>>

\* atomic.AddInt64(&counter, int64(segSize)); return (the deferred wg.Done)
StreamAddCounter(i) ==
    /\ alive
    /\ st[i] = "addCounter"
    /\ counter' = AtomicAdd(counter, SegSize(cfgSize, cfgStreams))
    /\ st' = [st EXCEPT ![i] = "finished"]
    /\ wg' = wg - 1
    /\ UNCHANGED <<svars, loopVars, cfgVars, runsLeft, netVars, res, totalBytes, upDur>>

\* wg.Wait() returns once the WaitGroup's count is 0
WaitReturnsEarly(w) == w <= 1

WaitReturns(w) == w = 0

\* wg.Wait returns; dur := time.Since(start); the Batch of the result and the
\* progress command is called and its BatchMsg returned
uploadJoin(dur) ==
    /\ alive
    /\ "uploadWait" \in cmds
    /\ WaitReturns(wg)
    /\ upDur' = dur
    /\ cmds' = cmds \ {"uploadWait"}
    /\ msgs' = msgs \cup {BatchMsg({"uploadResult", "tick"})}
    /\ UNCHANGED <<svars, m, alive, cfgVars, runsLeft, netVars, st, res, totalBytes,
                   counter, wg>>

\* func() tea.Msg { return uploadMsg{bytes: totalBytes, dur: dur} }
uploadResultCmd ==
    /\ alive
    /\ "uploadResult" \in cmds
    /\ cmds' = cmds \ {"uploadResult"}
    /\ msgs' = msgs \cup {uploadMsg(totalBytes, upDur)}
    /\ UNCHANGED <<svars, m, alive, cfgVars, runsLeft, netVars, fanVars>>

\* what the tick of makeProgressCmd returns: nil once done >= total
ProgressSampleAlways(done, total) == {progressMsg(done, total)}

ProgressSample(done, total) ==
    IF done >= total THEN {} ELSE {progressMsg(done, total)}

\* the tea.Tick of makeProgressCmd fires, 100ms after the command was started
progressTick ==
    /\ alive
    /\ "tick" \in cmds
    /\ cmds' = cmds \ {"tick"}
    /\ msgs' = msgs \cup ProgressSample(counter, cfgSize)
    /\ UNCHANGED <<svars, m, alive, cfgVars, runsLeft, netVars, fanVars>>

\* the stub's commands: they sleep and return fixed results
stubPingCmd(dur) ==
    /\ alive
    /\ client = "stub"
    /\ "ping" \in cmds
    /\ cmds' = cmds \ {"ping"}
    /\ msgs' = msgs \cup {pingMsg(dur)}
    /\ UNCHANGED <<svars, m, alive, cfgVars, runsLeft, netVars, fanVars>>

stubDownloadCmd(dur) ==
    /\ alive
    /\ client = "stub"
    /\ "download" \in cmds
    /\ cmds' = cmds \ {"download"}
    /\ msgs' = msgs \cup {downloadMsg(StubBytes, dur)}
    /\ UNCHANGED <<svars, m, alive, cfgVars, runsLeft, netVars, fanVars>>

stubUploadCmd(dur) ==
    /\ alive
    /\ client = "stub"
    /\ "upload" \in cmds
    /\ cmds' = cmds \ {"upload"}
    /\ msgs' = msgs \cup {uploadMsg(StubBytes, dur)}
    /\ UNCHANGED <<svars, m, alive, cfgVars, runsLeft, netVars, fanVars>>

ClientNext ==
    \/ \E msg \in msgs : Update(msg)
    \/ \E msg \in msgs : HandleBatch(msg)
    \/ HandleQuit
    \/ RunSecondProgram
    \/ QuitCmd
    \/ \E o \in {"ok", "status", "refused"}, d \in Durations : pingTestCmd(o, d)
    \/ \E o \in {"ok", "status", "refused", "bodyErr"},
          n \in ShortBodies \cup {cfgSize}, d \in Durations :
            downloadTestCmd(o, n, d)
    \/ uploadTestCmd
    \/ \E i \in 1..cfgStreams, o \in {"ok", "status", "refused"} : StreamDo(i, o)
    \/ \E i \in 1..cfgStreams : StreamAddTotal(i)
    \/ \E i \in 1..cfgStreams : StreamAddCounter(i)
    \/ \E d \in Durations : uploadJoin(d)
    \/ uploadResultCmd
    \/ progressTick
    \/ \E d \in Durations \ {0} : stubPingCmd(d)
    \/ \E d \in Durations \ {0} : stubDownloadCmd(d)
    \/ \E d \in Durations \ {0} : stubUploadCmd(d)

-----------------------------------------------------------------------------
(* Specifications: the server and the client are separate processes, each  *)
(* explored with the other one not started.                                *)

ServerSpec == ServerInit /\ [][ServerNext]_vars

\* the server with requests on two connections at a time: net/http runs each
\* handler in a goroutine of its own
ConcurrentInit ==
    /\ variant \in {"plain", "metrics"}
    /\ chunkFlag \in {0, 3}
    /\ defaultFlag \in {5}
    /\ writeTimeout \in WriteTimeouts
    /\ readTimeout \in ReadTimeouts
    /\ srv = "boot"
    /\ payloadLen = 0
    /\ defaultDownloadSize = 0
    /\ downloadByteCnt = 0
    /\ uploadByteCnt = 0
    /\ conns = ConnIds
    /\ h = [c \in conns |-> Idle]
    /\ nreq = 0
    \* the client is not started
    /\ client = "cli" /\ cfgSize = testSize /\ cfgStreams = streams
    /\ runsLeft = 0
    /\ m = [phase |-> "ping"] /\ cmds = {} /\ msgs = {} /\ alive = FALSE
    /\ pingReqs = 0 /\ dlReqs = 0 /\ ulReqs = 0
    /\ pingRes = "none" /\ dlRes = "none" /\ failures = {}
    /\ st = <<>> /\ res = <<>>
    /\ totalBytes = 0 /\ counter = 0 /\ wg = 0 /\ upDur = 0

ConcurrentSpec == ConcurrentInit /\ [][ServerNext]_vars

\* every handler goroutine that can take a step eventually takes one; a
\* handler blocked in a write to a stalled peer or in a read from a silent
\* one, or one whose process has ended, can take none
ServerFairSpec ==
    ServerSpec /\ \A c \in ConnIds : WF_vars(c \in conns /\ HandlerStep(c))

ClientSpec == ClientInit /\ [][ClientNext]_vars

-----------------------------------------------------------------------------
(* Properties of the server                                                *)

\* the download handlers, and those among them whose size is positive
Downloads == {c \in conns : h[c].kind = "download"}
Uploads == {c \in conns : h[c].kind = "upload"}

\* C1: a download of a positive size that meets no write failure has its
\* Content-Length set to the size before the first write and writes exactly
\* size bytes, whatever chunk size the server runs with (as long as the
\* process runs and the peer goes on reading).
DownloadDeliversSize ==
    /\ [](\A c \in Downloads :
            /\ (h[c].pc # "done" \/ h[c].writes > 0) =>
                   h[c].contentLength = Itoa(h[c].totalSize)
            /\ h[c].totalSize > 0 => h[c].sent <= h[c].totalSize)
    /\ \A c \in ConnIds :
          (c \in Downloads /\ h[c].pc = "loop" /\ h[c].totalSize > 0)
              ~> \/ c \in Downloads /\ h[c].pc = "done"
                    /\ (h[c].outcome = "Aborted" \/ h[c].sent = h[c].totalSize)
                 \/ c \in Downloads /\ h[c].stalled
                 \/ ~ProcessUp

\* a size value that is not a number, or a number <= 0
NotPositiveNumber(v) == ~Atoi(v).ok \/ Atoi(v).val <= 0

\* the handler of connection c answered 400 and did nothing else
RejectedBy(c) ==
    /\ h'[c].pc = "done"
    /\ h'[c].status = StatusBadRequest
    /\ h'[c].body = "error"
    /\ h'[c].sent = 0
    /\ h'[c].writes = 0
    /\ downloadByteCnt' = downloadByteCnt

\* C2 as stated: every download whose size parameter is present and is <= 0
\* or non-numeric is answered 400, with no payload written and the download
\* counter unchanged.
InvalidSizeRejected ==
    [][\A c \in conns :
          (h[c].pc = "idle" /\ h'[c].kind = "download"
               /\ h'[c].query.present /\ NotPositiveNumber(h'[c].query.value))
              => RejectedBy(c)]_vars

\* C2 amended: the same for a size parameter whose value is not empty (an
\* empty value is taken as no parameter at all).
NonEmptyInvalidSizeRejected ==
    [][\A c \in conns :
          (h[c].pc = "idle" /\ h'[c].kind = "download"
               /\ h'[c].query.present /\ h'[c].query.value # <<>>
               /\ NotPositiveNumber(h'[c].query.value))
              => RejectedBy(c)]_vars

\* a non-numeric size was answered 400 after an earlier download was counted
InvalidSizeRejectedWitness ==
    \E c \in Downloads :
        /\ h[c].query = [present |-> TRUE, value |-> <<"1", "x">>]
        /\ h[c].pc = "done"
        /\ h[c].status = StatusBadRequest
        /\ downloadByteCnt > 0

\* C3: a download without a size parameter streams exactly the value of the
\* default-size option.
DefaultSizeStreamed ==
    \A c \in Downloads :
        (~h[c].query.present /\ h[c].outcome = "Completed") =>
            /\ h[c].sent = defaultFlag
            /\ h[c].contentLength = Itoa(defaultFlag)

\* C4: an upload whose body is read to its end is answered 200 with the
\* length of the body as the byte count, and the upload counter grows by it.
UploadCountExact ==
    [][\A c \in conns :
          (h[c].pc = "read" /\ h'[c].outcome = "Completed") =>
              /\ h'[c].status = StatusOK
              /\ h'[c].body = "report"
              /\ Atoi(h'[c].report) = [ok |-> TRUE, val |-> h[c].bodyLen]
              /\ variant = "metrics" =>
                     uploadByteCnt' = uploadByteCnt + h[c].bodyLen]_vars

\* an empty body was reported as 0 bytes after a body of MaxBody bytes
UploadCountExactWitness ==
    \E c \in Uploads :
        /\ h[c].outcome = "Completed"
        /\ h[c].bodyLen = 0
        /\ h[c].report = <<"0">>
        /\ uploadByteCnt = MaxBody

\* C10: an upload whose body cannot be read is answered 500 with no byte
\* count, and the upload counter stays as it was.
UploadReadErrorNotCounted ==
    [][\A c \in conns :
          (h[c].pc = "read" /\ h'[c].outcome = "Aborted") =>
              /\ h'[c].status = StatusInternalServerError
              /\ h'[c].body = "error"
              /\ h'[c].report = <<>>
              /\ uploadByteCnt' = uploadByteCnt]_vars

\* a read failed after some bytes of the body had been read
UploadReadErrorWitness ==
    \E c \in Uploads :
        /\ h[c].outcome = "Aborted"
        /\ h[c].bytesRead > 0
        /\ h[c].left > 0
        /\ variant = "metrics"

\* the download handlers that are in their streaming loop
Streaming == {c \in Downloads : h[c].pc \in {"loop", "write"}}

\* C11: with chunk-size <= 0 or default-size <= 0 the server never serves,
\* so no download handler streams with an empty chunk or a size <= 0.
ConfigValidated ==
    /\ (chunkFlag <= 0 \/ defaultFlag <= 0) => srv # "serving"
    /\ \A c \in Streaming : payloadLen > 0 /\ h[c].totalSize > 0

\* C14: each successful loop iteration of downloadHandler strictly increases
\* the bytes sent, and every download handler eventually returns, Completed
\* or Aborted, unless the process is ended first.
DownloadTerminates ==
    /\ [][\A c \in conns :
             (h[c].pc = "write" /\ h'[c].pc = "loop") => h'[c].sent > h[c].sent]_vars
    /\ \A c \in ConnIds :
          (c \in Downloads)
              ~> \/ c \in conns /\ h[c].pc = "done"
                    /\ h[c].outcome \in {"Completed", "Aborted"}
                 \/ ~ProcessUp

CeilDiv(a, b) == (a + b - 1) \div b

\* C15: every write of a download emits between 1 and chunkSize bytes, only
\* the last one may be shorter than chunkSize, the bytes sent never exceed
\* the size, and a completed response of size bytes took exactly
\* ceil(size / chunkSize) writes.
ChunkedWrites ==
    /\ [][\A c \in conns :
             (h[c].pc = "write" /\ h'[c].pc = "loop") =>
                 LET emitted == h'[c].sent - h[c].sent
                 IN  /\ 1 <= emitted /\ emitted <= payloadLen
                     /\ emitted < payloadLen => h'[c].sent = h[c].totalSize
                     /\ h'[c].sent <= h[c].totalSize]_vars
    /\ [](\A c \in Downloads :
             (h[c].outcome = "Completed" /\ payloadLen > 0) =>
                 h[c].writes = CeilDiv(h[c].totalSize, payloadLen))

\* C16: when a write of a download fails, the handler returns in that step:
\* nothing more is written or retried by it afterwards, the download counter
\* does not change, and the handlers of the other connections are as they
\* were.
WriteFailureAborts ==
    [][\A c \in conns :
          /\ (h[c].pc = "write" /\ h'[c].outcome = "Aborted") =>
                 /\ h'[c].pc = "done"
                 /\ h'[c].sent = h[c].sent
                 /\ h'[c].writes = h[c].writes
                 /\ downloadByteCnt' = downloadByteCnt
                 /\ \A d \in conns \ {c} : h'[d] = h[d]
          /\ (h[c].kind = "download" /\ h[c].outcome = "Aborted") =>
                 h'[c] \in {h[c], Idle}]_vars

\* one download was cut by a write failure after its first chunk, and the
\* download on the other connection goes on streaming
WriteFailureWitness ==
    \E c, d \in Downloads :
        /\ h[c].outcome = "Aborted" /\ h[c].sent > 0 /\ h[c].sent < h[c].totalSize
        /\ h[d].pc = "write" /\ h[d].sent > 0
        /\ variant = "metrics" /\ downloadByteCnt = 0

-----------------------------------------------------------------------------
(* Properties of the client                                                *)

Forward == { <<"ping", "download">>, <<"download", "upload">>, <<"upload", "done">> }
Running == {"ping", "download", "upload"}

\* C5: the phase only moves ping -> download -> upload -> done, or from a
\* running phase to error; done and error are final; the requests and the
\* commands of a phase exist only while the client is in that phase.
PhaseOrder ==
    [][/\ m'.phase # m.phase =>
              \/ <<m.phase, m'.phase>> \in Forward
              \/ m.phase \in Running /\ m'.phase = "error"
       /\ pingReqs' > pingReqs => m.phase = "ping"
       /\ dlReqs' > dlReqs => m.phase = "download"
       /\ ulReqs' > ulReqs => m.phase = "upload"
       /\ "ping" \in cmds' => m'.phase = "ping"
       /\ "download" \in cmds' => m'.phase = "download"
       /\ ({"upload", "uploadWait"} \cap cmds' # {}) => m'.phase = "upload"]_vars

NetErrors == {"status", "refused", "bodyErr"}

\* C6: a network error (refused, timeout, non-success status) of the ping,
\* the download or an upload stream moves the client to error at once and no
\* request of a later phase follows.
NetErrorStopsRun ==
    /\ pingRes \in NetErrors =>
           m.phase \in {"ping", "error"} /\ dlReqs = 0 /\ ulReqs = 0
    /\ dlRes \in NetErrors =>
           m.phase \in {"download", "error"} /\ ulReqs = 0
    /\ (\E i \in DOMAIN res : res[i] \in NetErrors) =>
           m.phase \in {"upload", "error"}

\* C7: a transport failure of the ping finds the client in ping and leaves
\* it there until it is in error, and no download or upload request is
\* issued afterwards; a transport failure of the download leads from
\* download to error and no upload request is issued afterwards.
TransportFailureStopsRun ==
    /\ [](pingRes = "refused" => m.phase \in {"ping", "error"})
    /\ [](dlRes \in {"refused", "bodyErr"} => m.phase \in {"download", "error"})
    /\ [][/\ "ping" \in failures => dlReqs' = dlReqs /\ ulReqs' = ulReqs
          /\ "download" \in failures => ulReqs' = ulReqs]_vars

UploadMsgs == {msg \in msgs : msg.type = "upload"}
Refused == {i \in DOMAIN res : res[i] = "refused"}

\* C8: with totalSize a multiple of streamCount and every stream answered
\* 200, the upload result carries exactly totalSize bytes.
FanOutSumsToTotal ==
    (client = "cli" /\ cfgSize % cfgStreams = 0
        /\ \A i \in DOMAIN res : res[i] = "ok")
        => \A msg \in UploadMsgs : msg.bytes = cfgSize

\* four streams, all answered 200, gave a result of testSize bytes
FanOutSumsWitness ==
    /\ client = "cli" /\ cfgStreams = streams /\ cfgSize = testSize
    /\ \A i \in DOMAIN res : res[i] = "ok"
    /\ \E msg \in UploadMsgs : msg.bytes = testSize

\* C9: with k streams refused the result carries (streamCount - k) * segSize
\* bytes, and the upload phase ends in done, never in error.
PartialFanOut ==
    /\ [](client = "cli" =>
            /\ \A msg \in UploadMsgs :
                   msg.bytes = (cfgStreams - Cardinality(Refused))
                                   * (cfgSize \div cfgStreams)
            /\ m.phase = "upload" => errorMsg \notin msgs)
    /\ [][(m.phase = "upload" /\ m'.phase # "upload") => m'.phase = "done"]_vars

\* one of four streams was refused: three segments counted, the run is done
PartialFanOutWitness ==
    /\ client = "cli" /\ cfgStreams = streams /\ cfgSize = testSize
    /\ Cardinality(Refused) = 1
    /\ m.phase = "done"
    /\ m.uploadSpeed.bytes = 3 * (testSize \div streams)

AllFinished == \A i \in DOMAIN st : st[i] = "finished"

\* the upload command is past wg.Wait: its result is on its way or handled
ResultComputed ==
    \/ "uploadResult" \in cmds
    \/ \E msg \in msgs : msg.type = "batch"
    \/ UploadMsgs # {}
    \/ m.phase = "done"

\* C12: the upload result is computed only after every stream goroutine has
\* finished, succeeded or failed, and its byte total is the value the counter
\* has after the last stream finished.
UploadBarrier ==
    client = "cli" =>
        /\ ResultComputed => AllFinished
        /\ \A msg \in UploadMsgs : msg.bytes = counter

\* the result of four streams, one refused and three counted, is delivered
UploadBarrierWitness ==
    /\ client = "cli" /\ cfgStreams = streams
    /\ Cardinality(Refused) = 1
    /\ \E msg \in UploadMsgs : msg.bytes = counter /\ msg.bytes > 0

\* C13: the upload counter changes only when a stream whose request was
\* answered with success adds segSize to it, once, on finishing; a failed
\* request or a non-success response adds nothing.  So the counter never
\* decreases, is a multiple of segSize and is at most totalSize.  (The
\* counter is a variable of one upload phase: a second program has its own.)
CounterCountsSuccess ==
    /\ [](client = "cli" =>
            /\ counter % SegSize(cfgSize, cfgStreams) = 0
            /\ counter >= 0 /\ counter <= cfgSize)
    /\ [][(counter' # counter /\ runsLeft' = runsLeft) =>
            \E i \in DOMAIN st :
                /\ st[i] = "addCounter" /\ st'[i] = "finished"
                /\ res[i] = "ok"
                /\ counter' = counter + SegSize(cfgSize, cfgStreams)]_vars

DownloadMsgs == {msg \in msgs : msg.type = "download"}

\* C17: a download that received a number of bytes other than the size it
\* asked for yields no download result: every download result carries
\* totalSize bytes, and the phases after download are entered only with a
\* throughput computed from totalSize bytes.
ShortDownloadIsError ==
    client = "cli" =>
        /\ \A msg \in DownloadMsgs : msg.bytes = cfgSize
        /\ m.phase \in {"upload", "done"} => m.downloadSpeed.bytes = cfgSize

\* C18: a download or upload result with elapsed time 0 is handled as an
\* error, and no throughput is ever the quotient of a division by a zero
\* elapsed time.
ZeroElapsedIsError ==
    /\ [](m.downloadSpeed.kind = "finite" /\ m.uploadSpeed.kind = "finite")
    /\ [][\A msg \in msgs :
             (msg.type \in {"download", "upload"} /\ msg.dur = 0
                  /\ msg \notin msgs') => m'.phase = "error"]_vars

ProgressMsgs == {msg \in msgs : msg.type = "progress"}

\* C19: progress snapshots of the upload are emitted only while the phase is
\* under way: none is emitted once all streams have finished.
ProgressOnlyInFlight ==
    [][ProgressMsgs' \ ProgressMsgs # {} => ~AllFinished]_vars

\* C20: every progress snapshot has 0 <= done <= total, a sample that finds
\* done >= total emits none, and handling a snapshot (the loop of the running
\* program takes it) changes nothing of the model but the progress display.
SnapshotInRange ==
    /\ [](\A msg \in ProgressMsgs : 0 <= msg.done /\ msg.done <= msg.total)
    /\ [][("tick" \in cmds /\ "tick" \notin cmds' /\ counter >= cfgSize)
              => ProgressMsgs' = ProgressMsgs]_vars
    /\ [][\A msg \in ProgressMsgs :
             (msg \notin msgs' /\ runsLeft' = runsLeft) =>
                 m' = [m EXCEPT !.percent = m'.percent]]_vars

\* a snapshot of three segments out of four was handled and shown
SnapshotInRangeWitness ==
    /\ client = "cli" /\ cfgStreams = streams
    /\ m.percent = <<3 * (cfgSize \div streams), cfgSize>>
    /\ m.phase \in {"upload", "done"}

\* C21: no request is retried, whatever fails: a run issues at most one
\* ping request, at most one download request and at most streamCount upload
\* requests, every upload request being the single one of a stream that had
\* not sent yet.
NoRetry ==
    /\ [](pingReqs <= 1 /\ dlReqs <= 1 /\ ulReqs <= cfgStreams)
    /\ [][ulReqs' # ulReqs =>
             \E i \in DOMAIN st :
                 /\ st[i] = "new" /\ st'[i] # "new"
                 /\ ulReqs' = ulReqs + 1
                 /\ \A j \in DOMAIN st \ {i} : st'[j] = st[j]]_vars
    /\ [][\A i \in DOMAIN st :
             st[i] \notin {"none", "new"} => st'[i] # "new"]_vars

====
